---- MODULE Spec2Model ----
(***************************************************************************)
(* Model of the `claims` crate: 17 assertion macros and their debug_*      *)
(* counterparts.  A caller makes a bounded number of macro calls; every    *)
(* call evaluates its argument expressions in the order the macro          *)
(* expansion dictates, and either completes with a value or panics with a  *)
(* message, which ends the caller's computation.                           *)
(*                                                                         *)
(* Values.  A Rust value of the modelled types is [tags, args]: the path   *)
(* of enum constructors from the outside in, and the integer payload (a    *)
(* sequence of length 0 or 1).  Ready(Ok(1)) is                            *)
(* [tags |-> <<"Ready","Ok">>, args |-> <<1>>], None is                    *)
(* [tags |-> <<"None">>, args |-> <<>>], the integer 1 is                  *)
(* [tags |-> <<>>, args |-> <<1>>] and () is [tags |-> <<>>, args |-> <<>>].*)
(***************************************************************************)
EXTENDS Integers, Sequences, FiniteSets, TLC

\* Payloads are the integers 0..MaxPayload.
MaxPayload == 1
\* The caller makes at most MaxCalls macro calls.
MaxCalls == 2
\* Threads that each make one macro call concurrently.
NThreads == 2

VARIABLES
    debug_assertions,   \* the build configuration flag cfg(debug_assertions)
    pc,                 \* the caller: "running" or "panicked"
    ncalls,             \* macro calls made so far
    input,              \* the arguments of the last macro call
    outcome,            \* its outcome: [kind, value, message]
    evals,              \* the argument expressions it evaluated, in order
    places,             \* what the caller's argument places hold afterwards
    tpc,                \* per thread: "idle", "called", "returned", "panicked"
    tinput,             \* per thread: the arguments of its macro call
    toutcome            \* per thread: the outcome of its macro call

tvars == <<tpc, tinput, toutcome>>
vars == <<debug_assertions, pc, ncalls, input, outcome, evals, places, tvars>>

----------------------------------------------------------------------------
(* Values *)

Payload == 0..MaxPayload

Int_(n) == [tags |-> <<>>, args |-> <<n>>]
Unit == [tags |-> <<>>, args |-> <<>>]
Wrap(tag, v) == [tags |-> <<tag>> \o v.tags, args |-> v.args]
Nullary(tag) == [tags |-> <<tag>>, args |-> <<>>]

Ok(v) == Wrap("Ok", v)
Err(v) == Wrap("Err", v)
Some(v) == Wrap("Some", v)
None == Nullary("None")
Ready(v) == Wrap("Ready", v)
Pending == Nullary("Pending")

\* The variant a value is of, and the payload a pattern `Tag(t)` binds.
Tag(v) == IF v.tags = <<>> THEN "" ELSE Head(v.tags)
Inner(v) == [tags |-> Tail(v.tags), args |-> v.args]

IntValues == {Int_(n) : n \in Payload}
ResultValues == {Ok(v) : v \in IntValues} \cup {Err(v) : v \in IntValues}
OptionValues == {Some(v) : v \in IntValues} \cup {None}
PollValues == {Ready(v) : v \in IntValues} \cup {Pending}
PollResultValues == {Ready(v) : v \in ResultValues} \cup {Pending}

\* A payload of a type that does not implement Debug: the `enum Foo { Bar }`
\* of the tests does_not_require_*_to_impl_debug.
Opaque == Nullary("Foo::Bar")

HasOpaque(v) == \E k \in 1..Len(v.tags) : v.tags[k] = "Foo::Bar"

\* The constructors around the payload without Debug.
OpaquePath(v) ==
    SubSeq(v.tags, 1, (CHOOSE k \in 1..Len(v.tags) : v.tags[k] = "Foo::Bar") - 1)

\* The values given to the macros that are tested with such payloads: those
\* of Result<Foo, i32>, Result<i32, Foo>, Option<Foo>, Poll<Foo> and
\* Poll<Result<Foo, i32>> besides the values with integer payloads.
OkInputs == ResultValues \cup {Ok(Opaque)}
ErrInputs == ResultValues \cup {Err(Opaque)}
SomeInputs == OptionValues \cup {Some(Opaque)}
ReadyInputs == PollValues \cup PollResultValues \cup {Ready(Opaque)}
ReadyOkInputs == PollResultValues \cup {Ready(Ok(Opaque))}

\* `{:?}` and `{}` of the modelled types (derived Debug of core's enums,
\* Debug/Display of integers, Debug of the unit type).
RECURSIVE Debug(_)
Debug(v) ==
    IF v.tags = <<>>
    THEN IF v.args = <<>> THEN "()" ELSE ToString(v.args[1])
    ELSE IF v.args = <<>> /\ Len(v.tags) = 1
         THEN Head(v.tags)
         ELSE Head(v.tags) \o "(" \o Debug(Inner(v)) \o ")"

Display(n) == ToString(n)

\* The backtick of the message texts.  A TLA+ string cannot hold a backtick,
\* so it is written as an apostrophe, which no message otherwise contains.
BT == "'"

----------------------------------------------------------------------------
(* Custom messages: the optional trailing `$($arg)+`.  <<>> is the form    *)
(* without a message; otherwise a format string `text{}` or `text` with    *)
(* its arguments.                                                          *)

NoMsg == <<>>
Msgs == {NoMsg,
         <<[text |-> "foo", args |-> <<>>]>>,
         <<[text |-> "v=", args |-> <<1>>]>>}

\* format_args!($($arg)+) rendered with `{}`.
Format(m) == m.text \o (IF m.args = <<>> THEN "" ELSE Display(m.args[1]))

\* The `: {}` tail of the second arm of every macro.
Suffix(msg) == IF msg = NoMsg THEN "" ELSE ": " \o Format(msg[1])

\* Evaluating format_args! evaluates the message arguments.
MsgEvals(msg) == IF msg = NoMsg THEN <<>> ELSE <<"msg">>

----------------------------------------------------------------------------
(* Outcomes of a macro call *)

Returned(v, ev) == [kind |-> "returned", value |-> v, message |-> "", evals |-> ev]
Panicked(m, ev) == [kind |-> "panicked", value |-> Unit, message |-> m, evals |-> ev]
Skipped == [kind |-> "skipped", value |-> Unit, message |-> "", evals |-> <<>>]

----------------------------------------------------------------------------
(* The unwrapping and variant macros.  Each is `match $cond { .. }`: $cond *)
(* is evaluated once, and format_args! only in the panicking arm.          *)

\* assert_ok with the message "expected Ok(_), got {:?}" of the bare payload.
assert_ok_bare_payload(cond, msg) ==
    IF Tag(cond) = "Ok"
    THEN Returned(Inner(cond), <<"cond">>)
    ELSE Panicked("assertion failed, expected Ok(_), got "
                      \o Debug(Inner(cond)) \o Suffix(msg),
                  <<"cond">> \o MsgEvals(msg))

assert_ok(cond, msg) ==
    IF Tag(cond) = "Ok"
    THEN Returned(Inner(cond), <<"cond">>)
    ELSE Panicked("assertion failed, expected Ok(_), got Err("
                      \o Debug(Inner(cond)) \o ")" \o Suffix(msg),
                  <<"cond">> \o MsgEvals(msg))

assert_err(cond, msg) ==
    IF Tag(cond) = "Err"
    THEN Returned(Inner(cond), <<"cond">>)
    ELSE Panicked("assertion failed, expected Err(_), got Ok("
                      \o Debug(Inner(cond)) \o ")" \o Suffix(msg),
                  <<"cond">> \o MsgEvals(msg))

\* assert_some whose second arm panics with the custom message alone.
assert_some_message_replaces_default(cond, msg) ==
    IF Tag(cond) = "Some"
    THEN Returned(Inner(cond), <<"cond">>)
    ELSE Panicked(IF msg = NoMsg
                  THEN "assertion failed, expected Some(_), got None"
                  ELSE Format(msg[1]),
                  <<"cond">> \o MsgEvals(msg))

assert_some(cond, msg) ==
    IF Tag(cond) = "Some"
    THEN Returned(Inner(cond), <<"cond">>)
    ELSE Panicked("assertion failed, expected Some(_), got None" \o Suffix(msg),
                  <<"cond">> \o MsgEvals(msg))

\* assert_none that writes $cond again in its arms instead of binding the
\* matched value: `None => $cond, Some(_) => panic!(.., $cond)`.
assert_none_reevaluates(cond, msg) ==
    IF Tag(cond) = "None"
    THEN Returned(cond, <<"cond", "cond">>)
    ELSE Panicked("assertion failed, expected None, got " \o Debug(cond)
                      \o Suffix(msg),
                  <<"cond", "cond">> \o MsgEvals(msg))

assert_none(cond, msg) ==
    IF Tag(cond) = "None"
    THEN Returned(cond, <<"cond">>)
    ELSE Panicked("assertion failed, expected None, got " \o Debug(cond)
                      \o Suffix(msg),
                  <<"cond">> \o MsgEvals(msg))

\* assert_pending with the arm `Poll::Pending => {}`.
assert_pending_unit(cond, msg) ==
    IF Tag(cond) = "Pending"
    THEN Returned(Unit, <<"cond">>)
    ELSE Panicked("assertion failed, expected Pending, got " \o Debug(cond)
                      \o Suffix(msg),
                  <<"cond">> \o MsgEvals(msg))

assert_pending(cond, msg) ==
    IF Tag(cond) = "Pending"
    THEN Returned(cond, <<"cond">>)
    ELSE Panicked("assertion failed, expected Pending, got " \o Debug(cond)
                      \o Suffix(msg),
                  <<"cond">> \o MsgEvals(msg))

\* assert_ready that polls $cond a second time when it is Pending and then
\* leaves the call waiting for the value.
assert_ready_polls(cond, msg) ==
    IF Tag(cond) = "Ready"
    THEN Returned(Inner(cond), <<"cond">>)
    ELSE [kind |-> "waiting", value |-> Unit, message |-> "",
          evals |-> <<"cond", "cond">>]

assert_ready(cond, msg) ==
    IF Tag(cond) = "Ready"
    THEN Returned(Inner(cond), <<"cond">>)
    ELSE Panicked("assertion failed, expected Ready(_), got Pending"
                      \o Suffix(msg),
                  <<"cond">> \o MsgEvals(msg))

\* assert_ready_ok whose Ready(Err(e)) arm prints "got Err({:?})".
assert_ready_ok_drops_ready(cond, msg) ==
    IF Tag(cond) = "Ready" /\ Tag(Inner(cond)) = "Ok"
    THEN Returned(Inner(Inner(cond)), <<"cond">>)
    ELSE IF Tag(cond) = "Ready"
    THEN Panicked("assertion failed, expected Ready(Ok(_)), got Err("
                      \o Debug(Inner(Inner(cond))) \o ")" \o Suffix(msg),
                  <<"cond">> \o MsgEvals(msg))
    ELSE Panicked("assertion failed, expected Ready(Ok(_)), got Pending"
                      \o Suffix(msg),
                  <<"cond">> \o MsgEvals(msg))

assert_ready_ok(cond, msg) ==
    IF Tag(cond) = "Ready" /\ Tag(Inner(cond)) = "Ok"
    THEN Returned(Inner(Inner(cond)), <<"cond">>)
    ELSE IF Tag(cond) = "Ready"
    THEN Panicked("assertion failed, expected Ready(Ok(_)), got Ready(Err("
                      \o Debug(Inner(Inner(cond))) \o "))" \o Suffix(msg),
                  <<"cond">> \o MsgEvals(msg))
    ELSE Panicked("assertion failed, expected Ready(Ok(_)), got Pending"
                      \o Suffix(msg),
                  <<"cond">> \o MsgEvals(msg))

\* assert_ready_err with the arm `Ready(e) => e`: unwraps one level only.
assert_ready_err_unwraps_once(cond, msg) ==
    IF Tag(cond) = "Ready" /\ Tag(Inner(cond)) = "Err"
    THEN Returned(Inner(cond), <<"cond">>)
    ELSE Panicked("assertion failed, expected Ready(Err(_)), got " \o Debug(cond)
                      \o Suffix(msg),
                  <<"cond">> \o MsgEvals(msg))

assert_ready_err(cond, msg) ==
    IF Tag(cond) = "Ready" /\ Tag(Inner(cond)) = "Err"
    THEN Returned(Inner(Inner(cond)), <<"cond">>)
    ELSE Panicked("assertion failed, expected Ready(Err(_)), got " \o Debug(cond)
                      \o Suffix(msg),
                  <<"cond">> \o MsgEvals(msg))

----------------------------------------------------------------------------
(* core::assert_eq!(left, right [, args]) as the *_eq macros invoke it:    *)
(* both operands are evaluated, then compared with ==; the message         *)
(* arguments are evaluated only when the comparison fails.  The result     *)
(* carries the events that follow the evaluation of `left`.                *)

core_assert_eq(left, right, msg) ==
    IF left = right
    THEN Returned(Unit, <<"expected">>)
    ELSE Panicked("assertion " \o BT \o "left == right" \o BT \o " failed"
                      \o Suffix(msg)
                      \o "\n  left: " \o Debug(left)
                      \o "\n right: " \o Debug(right),
                  <<"expected">> \o MsgEvals(msg))

(* The equality macros: `match $cond { V(t) => { assert_eq!(t, $expected); *)
(* t }, other => panic!(..) }`.                                            *)

\* The arm `V(t) => t`, without the assert_eq! line.
EqArm_unchecked(t, expected, msg) == Returned(t, <<"cond">>)

EqArm(t, expected, msg) ==
    LET r == core_assert_eq(t, expected, msg)
    IN  IF r.kind = "panicked"
        THEN Panicked(r.message, <<"cond">> \o r.evals)
        ELSE Returned(t, <<"cond">> \o r.evals)

\* assert_ok_eq matching on the pair `($cond, $expected)`: the expected
\* value is evaluated whatever the variant.
assert_ok_eq_matches_pair(cond, expected, msg) ==
    IF Tag(cond) = "Ok"
    THEN EqArm(Inner(cond), expected, msg)
    ELSE Panicked("assertion failed, expected Ok(_), got " \o Debug(cond)
                      \o Suffix(msg),
                  <<"cond", "expected">> \o MsgEvals(msg))

assert_ok_eq(cond, expected, msg) ==
    IF Tag(cond) = "Ok"
    THEN EqArm(Inner(cond), expected, msg)
    ELSE Panicked("assertion failed, expected Ok(_), got " \o Debug(cond)
                      \o Suffix(msg),
                  <<"cond">> \o MsgEvals(msg))

\* assert_err_eq comparing the payload of either variant before looking at
\* the variant.
assert_err_eq_compares_first(cond, expected, msg) ==
    IF Tag(cond) = "Err" \/ Inner(cond) # expected
    THEN EqArm(Inner(cond), expected, msg)
    ELSE Panicked("assertion failed, expected Err(_), got " \o Debug(cond)
                      \o Suffix(msg),
                  <<"cond">> \o MsgEvals(msg))

assert_err_eq(cond, expected, msg) ==
    IF Tag(cond) = "Err"
    THEN EqArm(Inner(cond), expected, msg)
    ELSE Panicked("assertion failed, expected Err(_), got " \o Debug(cond)
                      \o Suffix(msg),
                  <<"cond">> \o MsgEvals(msg))

\* assert_some_eq whose second arm calls assert_eq!(t, $expected) without the
\* message arguments.
assert_some_eq_drops_message(cond, expected, msg) ==
    IF Tag(cond) = "Some"
    THEN EqArm(Inner(cond), expected, NoMsg)
    ELSE Panicked("assertion failed, expected Some(_), got None" \o Suffix(msg),
                  <<"cond">> \o MsgEvals(msg))

assert_some_eq(cond, expected, msg) ==
    IF Tag(cond) = "Some"
    THEN EqArm(Inner(cond), expected, msg)
    ELSE Panicked("assertion failed, expected Some(_), got None" \o Suffix(msg),
                  <<"cond">> \o MsgEvals(msg))

\* assert_ready_eq with one arm `Ready(t) if t == $expected => t` and the
\* variant-mismatch panic for everything else.
assert_ready_eq_single_message(cond, expected, msg) ==
    IF Tag(cond) = "Ready" /\ Inner(cond) = expected
    THEN Returned(Inner(cond), <<"cond", "expected">>)
    ELSE Panicked("assertion failed, expected Ready(_), got " \o Debug(cond)
                      \o Suffix(msg),
                  <<"cond">> \o MsgEvals(msg))

assert_ready_eq(cond, expected, msg) ==
    IF Tag(cond) = "Ready"
    THEN EqArm(Inner(cond), expected, msg)
    ELSE Panicked("assertion failed, expected Ready(_), got Pending"
                      \o Suffix(msg),
                  <<"cond">> \o MsgEvals(msg))

----------------------------------------------------------------------------
(* The relational macros: `match (&$left, &$right)` binds references to    *)
(* both operands, evaluated left first, and panics unless `left op right`. *)

\* The relational panic with its operands in the wrong order.
RelPanic_swapped(op, left, right, msg) ==
    Panicked("assertion failed: " \o BT \o "(left " \o op \o " right)" \o BT
                 \o "\n    left: " \o BT \o Debug(right) \o BT
                 \o ",\n    right: " \o BT \o Debug(left) \o BT
                 \o Suffix(msg),
             <<"left", "right">> \o MsgEvals(msg))

RelPanic(op, left, right, msg) ==
    Panicked("assertion failed: " \o BT \o "(left " \o op \o " right)" \o BT
                 \o "\n    left: " \o BT \o Debug(left) \o BT
                 \o ",\n    right: " \o BT \o Debug(right) \o BT
                 \o Suffix(msg),
             <<"left", "right">> \o MsgEvals(msg))

assert_ge(left, right, msg) ==
    IF ~(left.args[1] >= right.args[1])
    THEN RelPanic(">=", left, right, msg)
    ELSE Returned(Unit, <<"left", "right">>)

\* assert_gt with the test `!(*left_val >= *right_val)`.
assert_gt_accepts_equal(left, right, msg) ==
    IF ~(left.args[1] >= right.args[1])
    THEN RelPanic(">", left, right, msg)
    ELSE Returned(Unit, <<"left", "right">>)

assert_gt(left, right, msg) ==
    IF ~(left.args[1] > right.args[1])
    THEN RelPanic(">", left, right, msg)
    ELSE Returned(Unit, <<"left", "right">>)

\* assert_le that formats its message before the comparison, on every call.
assert_le_formats_eagerly(left, right, msg) ==
    IF ~(left.args[1] <= right.args[1])
    THEN RelPanic("<=", left, right, msg)
    ELSE Returned(Unit, <<"left", "right">> \o MsgEvals(msg))

assert_le(left, right, msg) ==
    IF ~(left.args[1] <= right.args[1])
    THEN RelPanic("<=", left, right, msg)
    ELSE Returned(Unit, <<"left", "right">>)

assert_lt(left, right, msg) ==
    IF ~(left.args[1] < right.args[1])
    THEN RelPanic("<", left, right, msg)
    ELSE Returned(Unit, <<"left", "right">>)

----------------------------------------------------------------------------
(* assert_matches!($expression, $($pattern)|+ $(if $guard)? [, args]).     *)
(* The inspected values are those of the tests' `enum Foo { Bar(usize),    *)
(* Baz(usize) }`.  An alternative is Foo::ctor(sub) with sub one of `_`,   *)
(* a binding `x`, or an integer literal; a guard is `x < k` or `x > k`     *)
(* over the binding, so a guarded pattern binds x in every alternative.    *)

FooValues == {Wrap(c, v) : c \in {"Bar", "Baz"}, v \in IntValues}

\* The integer literals written in patterns and guards.
PatternConsts == {1}

Subs == {[kind |-> "wild", n |-> 0], [kind |-> "bind", n |-> 0]}
            \cup {[kind |-> "lit", n |-> k] : k \in PatternConsts}
Alts == {[ctor |-> c, sub |-> s] : c \in {"Bar", "Baz"}, s \in Subs}
BindAlts == {a \in Alts : a.sub.kind = "bind"}

NoGuard == <<>>
Guards == {<<[op |-> o, k |-> n]>> : o \in {"<", ">"}, n \in PatternConsts}

SeqsUpTo2(S) == {<<a>> : a \in S} \cup {<<a, b>> : a \in S, b \in S}

\* Patterns without a guard: one alternative, or `Foo::Bar(..) | Foo::Baz(..)`
\* as in tests::matches_multiple_variants.
UnguardedPatterns ==
    {<<a>> : a \in Alts}
        \cup {<<a, b>> : a \in {x \in Alts \ BindAlts : x.ctor = "Bar"},
                         b \in {x \in Alts \ BindAlts : x.ctor = "Baz"}}

\* The (pattern, guard) pairs a call is given.
PatternArgs == {<<p, NoGuard>> : p \in UnguardedPatterns}
                   \cup {<<p, g>> : p \in SeqsUpTo2(BindAlts), g \in Guards}

AltMatches(v, alt) ==
    /\ Tag(v) = alt.ctor
    /\ alt.sub.kind = "lit" => v.args[1] = alt.sub.n

GuardHolds(guard, v) ==
    IF guard[1].op = "<" THEN v.args[1] < guard[1].k ELSE v.args[1] > guard[1].k

\* The first match arm `$($pattern)|+ $(if $guard)? => {}`: the alternatives
\* are tried in order and the guard is evaluated for each one that matches,
\* until one passes.  Yields whether the arm is taken and the guard
\* evaluations made.
RECURSIVE MatchArm(_, _, _)
MatchArm(v, alts, guard) ==
    IF alts = <<>>
    THEN [taken |-> FALSE, evals |-> <<>>]
    ELSE IF ~AltMatches(v, Head(alts))
    THEN MatchArm(v, Tail(alts), guard)
    ELSE IF guard = NoGuard
    THEN [taken |-> TRUE, evals |-> <<>>]
    ELSE IF GuardHolds(guard, v)
    THEN [taken |-> TRUE, evals |-> <<"guard">>]
    ELSE LET rest == MatchArm(v, Tail(alts), guard)
         IN  [taken |-> rest.taken, evals |-> <<"guard">> \o rest.evals]

\* stringify!($($pattern)|+ $(if $guard)?)
SubText(sub) ==
    IF sub.kind = "wild" THEN "_"
    ELSE IF sub.kind = "bind" THEN "x" ELSE ToString(sub.n)

AltText(alt) == "Foo::" \o alt.ctor \o "(" \o SubText(alt.sub) \o ")"

RECURSIVE AltsText(_)
AltsText(alts) ==
    IF Len(alts) = 1 THEN AltText(Head(alts))
    ELSE AltText(Head(alts)) \o " | " \o AltsText(Tail(alts))

PatternText(alts, guard) ==
    AltsText(alts) \o (IF guard = NoGuard THEN ""
                       ELSE " if x " \o guard[1].op \o " " \o ToString(guard[1].k))

\* assert_matches with the matcher `$pattern:pat`: the first alternative only.
assert_matches_first_alternative(expression, alts, guard, msg) ==
    LET arm == MatchArm(expression, <<Head(alts)>>, guard)
    IN  IF arm.taken
        THEN Returned(Unit, <<"expression">> \o arm.evals)
        ELSE Panicked("assertion failed, expression does not match the given pattern."
                          \o "\n    expression: " \o Debug(expression)
                          \o "\n    pattern: " \o PatternText(alts, guard)
                          \o Suffix(msg),
                      <<"expression">> \o arm.evals \o MsgEvals(msg))

\* assert_matches whose panic stringifies the alternatives without the guard:
\* stringify!($($pattern)|+).
assert_matches_pattern_without_guard(expression, alts, guard, msg) ==
    LET arm == MatchArm(expression, alts, guard)
    IN  IF arm.taken
        THEN Returned(Unit, <<"expression">> \o arm.evals)
        ELSE Panicked("assertion failed, expression does not match the given pattern."
                          \o "\n    expression: " \o Debug(expression)
                          \o "\n    pattern: " \o PatternText(alts, NoGuard)
                          \o Suffix(msg),
                      <<"expression">> \o arm.evals \o MsgEvals(msg))

assert_matches(expression, alts, guard, msg) ==
    LET arm == MatchArm(expression, alts, guard)
    IN  IF arm.taken
        THEN Returned(Unit, <<"expression">> \o arm.evals)
        ELSE Panicked("assertion failed, expression does not match the given pattern."
                          \o "\n    expression: " \o Debug(expression)
                          \o "\n    pattern: " \o PatternText(alts, guard)
                          \o Suffix(msg),
                      <<"expression">> \o arm.evals \o MsgEvals(msg))

----------------------------------------------------------------------------
(* The debug_* macros.  `#[cfg(debug_assertions)] $crate::assert_x!(..);`  *)
(* is a statement that exists only in a build with debug_assertions;       *)
(* `if cfg!(debug_assertions) { $crate::assert_x!(..); }` is a branch on   *)
(* the constant.  Either way the strict macro is a statement: its value is *)
(* dropped.                                                                *)

\* The strict macro as the tail expression of the debug macro, not a statement.
Statement_keeps_value(r) == r

Statement(r) == IF r.kind = "returned" THEN Returned(Unit, r.evals) ELSE r

debug_assert_ok(dbg, cond, msg) ==
    IF dbg THEN Statement(assert_ok(cond, msg)) ELSE Skipped
debug_assert_err(dbg, cond, msg) ==
    IF dbg THEN Statement(assert_err(cond, msg)) ELSE Skipped
debug_assert_some(dbg, cond, msg) ==
    IF dbg THEN Statement(assert_some(cond, msg)) ELSE Skipped
debug_assert_none(dbg, cond, msg) ==
    IF dbg THEN Statement(assert_none(cond, msg)) ELSE Skipped
debug_assert_pending(dbg, cond, msg) ==
    IF dbg THEN Statement(assert_pending(cond, msg)) ELSE Skipped
debug_assert_ready(dbg, cond, msg) ==
    IF dbg THEN Statement(assert_ready(cond, msg)) ELSE Skipped
debug_assert_ready_ok(dbg, cond, msg) ==
    IF dbg THEN Statement(assert_ready_ok(cond, msg)) ELSE Skipped
debug_assert_ready_err(dbg, cond, msg) ==
    IF dbg THEN Statement(assert_ready_err(cond, msg)) ELSE Skipped
debug_assert_ok_eq(dbg, cond, expected, msg) ==
    IF dbg THEN Statement(assert_ok_eq(cond, expected, msg)) ELSE Skipped
\* debug_assert_err_eq without the #[cfg(debug_assertions)] attribute.
debug_assert_err_eq_ungated(dbg, cond, expected, msg) ==
    Statement(assert_err_eq(cond, expected, msg))

debug_assert_err_eq(dbg, cond, expected, msg) ==
    IF dbg THEN Statement(assert_err_eq(cond, expected, msg)) ELSE Skipped
debug_assert_some_eq(dbg, cond, expected, msg) ==
    IF dbg THEN Statement(assert_some_eq(cond, expected, msg)) ELSE Skipped
\* debug_assert_ready_eq binding its arguments before the cfg! branch.
debug_assert_ready_eq_eager(dbg, cond, expected, msg) ==
    IF dbg THEN Statement(assert_ready_eq(cond, expected, msg))
    ELSE [Skipped EXCEPT !.evals = <<"cond", "expected">>]

debug_assert_ready_eq(dbg, cond, expected, msg) ==
    IF dbg THEN Statement(assert_ready_eq(cond, expected, msg)) ELSE Skipped
debug_assert_ge(dbg, left, right, msg) ==
    IF dbg THEN Statement(assert_ge(left, right, msg)) ELSE Skipped
\* debug_assert_gt gated on a cfg that is never set.
debug_assert_gt_never(dbg, left, right, msg) == Skipped

debug_assert_gt(dbg, left, right, msg) ==
    IF dbg THEN Statement(assert_gt(left, right, msg)) ELSE Skipped
debug_assert_le(dbg, left, right, msg) ==
    IF dbg THEN Statement(assert_le(left, right, msg)) ELSE Skipped
debug_assert_lt(dbg, left, right, msg) ==
    IF dbg THEN Statement(assert_lt(left, right, msg)) ELSE Skipped
debug_assert_matches(dbg, expression, alts, guard, msg) ==
    IF dbg THEN Statement(assert_matches(expression, alts, guard, msg)) ELSE Skipped

----------------------------------------------------------------------------
(* Debug bounds.  A `{:?}` in a macro's expansion requires the type of the *)
(* formatted expression to implement Debug, whichever arm runs; a call     *)
(* site whose type does not is rejected by the compiler.  Formatted(name)  *)
(* is the set of places of the inspected value that the expansion of the   *)
(* macro formats with `{:?}`, each a path of constructors: <<>> is the     *)
(* whole value (`other`, `some @ ..`, the operands of a comparison), and   *)
(* <<"Err">> the binding e of the arm `Err(e)`.                            *)

\* Every macro binding the whole inspected value in its failing arm and
\* formatting it, as assert_none does.
Formatted_whole_value(name) == {<<>>}

Formatted(name) ==
    CASE name \in {"assert_ok", "debug_assert_ok"} -> {<<"Err">>}
      [] name \in {"assert_err", "debug_assert_err"} -> {<<"Ok">>}
      [] name \in {"assert_some", "debug_assert_some"} -> {}
      [] name \in {"assert_ready", "debug_assert_ready"} -> {}
      [] name \in {"assert_ready_ok", "debug_assert_ready_ok"}
             -> {<<"Ready", "Err">>}
      [] name \in {"assert_some_eq", "debug_assert_some_eq"} -> {<<"Some">>}
      [] name \in {"assert_ready_eq", "debug_assert_ready_eq"} -> {<<"Ready">>}
      [] OTHER -> {<<>>}

\* The debug_* macros whose body is a `#[cfg(debug_assertions)]` statement:
\* without debug_assertions the strict macro is not expanded at all.  The
\* other two, debug_assert_gt and debug_assert_ready_eq, branch on
\* `cfg!(debug_assertions)` and are type-checked in every build.
CfgGated == {"debug_assert_ok", "debug_assert_err", "debug_assert_some",
             "debug_assert_none", "debug_assert_pending", "debug_assert_ready",
             "debug_assert_ready_ok", "debug_assert_ready_err",
             "debug_assert_ok_eq", "debug_assert_err_eq", "debug_assert_some_eq",
             "debug_assert_ge", "debug_assert_le", "debug_assert_lt",
             "debug_assert_matches"}

IsPrefix(p, s) == Len(p) <= Len(s) /\ SubSeq(s, 1, Len(p)) = p

\* Whether the call site type-checks: no formatted place holds the payload
\* of the type without Debug.
Compiles(name, cond, dbg) ==
    \/ ~HasOpaque(cond)
    \/ name \in CfgGated /\ ~dbg
    \/ \A f \in Formatted(name) : ~IsPrefix(f, OpaquePath(cond))

\* The outcome recorded for a call site the compiler rejects.
Rejected == [kind |-> "rejected", value |-> Unit, message |-> "", evals |-> <<>>]
----------------------------------------------------------------------------
(* The caller.  A call records its arguments (cond is $cond, $left or      *)
(* $expression; expected is $expected or $right), the outcome and the      *)
(* argument expressions evaluated.  A panic ends the caller's computation. *)

NoValue == Unit
NoPattern == <<>>

(* Ownership.  The caller passes places of types that are not Copy, and    *)
(* `places` is what they hold once the call is over.  The relational       *)
(* macros match on `(&$left, &$right)` and compare `*left_val` with        *)
(* `*right_val`: they only borrow.  assert_matches on the passing path     *)
(* binds at most the integer inside the value.  Every other macro binds    *)
(* the matched value or its payload by value in the arm that passes        *)
(* (`Ok(t) => t`, `none @ None => none`); the *_eq macros hand $expected   *)
(* to assert_eq!, which borrows it.  A panic unwinds the caller and drops  *)
(* its places.                                                             *)

\* What a place holds after its value was moved out or dropped.
Moved == Nullary("(moved)")

\* Every macro matching on its argument expressions by value:
\* `match ($left, $right)`.
MovedOnPass_by_value(name) == {"cond", "expected"}

MovedOnPass(name) ==
    IF name \in {"assert_ge", "assert_gt", "assert_le", "assert_lt",
                 "debug_assert_ge", "debug_assert_gt", "debug_assert_le",
                 "debug_assert_lt", "assert_matches", "debug_assert_matches"}
    THEN {}
    ELSE {"cond"}

PlacesAfter(name, cond, expected, r) ==
    LET gone == IF r.kind = "returned" THEN MovedOnPass(name)
                ELSE IF r.kind = "panicked" THEN {"cond", "expected"}
                ELSE {}
    IN  [cond |-> IF "cond" \in gone THEN Moved ELSE cond,
         expected |-> IF "expected" \in gone /\ expected # NoValue
                      THEN Moved ELSE expected]

\* A call whose failure is reported but does not stop the caller.
Call_continues(name, cond, expected, alts, guard, msg, r) ==
    /\ ncalls < MaxCalls
    /\ input' = [macro |-> name, cond |-> cond, expected |-> expected,
                 pattern |-> alts, guard |-> guard, msg |-> msg]
    /\ outcome' = [kind |-> r.kind, value |-> r.value, message |-> r.message]
    /\ evals' = r.evals
    /\ places' = PlacesAfter(name, cond, expected, r)
    /\ ncalls' = ncalls + 1
    /\ pc' = IF r.kind = "panicked" THEN "panicked" ELSE pc
    /\ UNCHANGED <<debug_assertions, tvars>>

\* A call that appends to a record of evaluations kept across calls.
Call_accumulates(name, cond, expected, alts, guard, msg, r) ==
    /\ pc = "running"
    /\ ncalls < MaxCalls
    /\ input' = [macro |-> name, cond |-> cond, expected |-> expected,
                 pattern |-> alts, guard |-> guard, msg |-> msg]
    /\ outcome' = [kind |-> r.kind, value |-> r.value, message |-> r.message]
    /\ evals' = evals \o r.evals
    /\ places' = PlacesAfter(name, cond, expected, r)
    /\ ncalls' = ncalls + 1
    /\ pc' = IF r.kind = "panicked" THEN "panicked" ELSE "running"
    /\ UNCHANGED <<debug_assertions, tvars>>

Call(name, cond, expected, alts, guard, msg, expansion) ==
    LET r == IF Compiles(name, cond, debug_assertions) THEN expansion ELSE Rejected
    IN  /\ pc = "running"
        /\ ncalls < MaxCalls
        /\ input' = [macro |-> name, cond |-> cond, expected |-> expected,
                     pattern |-> alts, guard |-> guard, msg |-> msg]
        /\ outcome' = [kind |-> r.kind, value |-> r.value, message |-> r.message]
        /\ evals' = r.evals
        /\ places' = PlacesAfter(name, cond, expected, r)
        /\ ncalls' = ncalls + 1
        /\ pc' = IF r.kind = "panicked" THEN "panicked" ELSE "running"
        /\ UNCHANGED <<debug_assertions, tvars>>

Threads == 1..NThreads

NoInput == [macro |-> "", cond |-> NoValue, expected |-> NoValue,
            pattern |-> NoPattern, guard |-> NoGuard, msg |-> NoMsg]
NoOutcome == [kind |-> "none", value |-> Unit, message |-> ""]

Init ==
    /\ debug_assertions \in BOOLEAN
    /\ pc = "running"
    /\ ncalls = 0
    /\ input = NoInput
    /\ outcome = NoOutcome
    /\ evals = <<>>
    /\ places = [cond |-> NoValue, expected |-> NoValue]
    /\ tpc = [t \in Threads |-> "idle"]
    /\ tinput = [t \in Threads |-> NoInput]
    /\ toutcome = [t \in Threads |-> NoOutcome]

Call_assert_ok ==
    \E c \in OkInputs, m \in Msgs :
        Call("assert_ok", c, NoValue, NoPattern, NoGuard, m, assert_ok(c, m))

Call_debug_assert_ok ==
    \E c \in OkInputs, m \in Msgs :
        Call("debug_assert_ok", c, NoValue, NoPattern, NoGuard, m,
             debug_assert_ok(debug_assertions, c, m))

Call_assert_err ==
    \E c \in ErrInputs, m \in Msgs :
        Call("assert_err", c, NoValue, NoPattern, NoGuard, m, assert_err(c, m))

Call_debug_assert_err ==
    \E c \in ErrInputs, m \in Msgs :
        Call("debug_assert_err", c, NoValue, NoPattern, NoGuard, m,
             debug_assert_err(debug_assertions, c, m))

Call_assert_some ==
    \E c \in SomeInputs, m \in Msgs :
        Call("assert_some", c, NoValue, NoPattern, NoGuard, m, assert_some(c, m))

Call_debug_assert_some ==
    \E c \in SomeInputs, m \in Msgs :
        Call("debug_assert_some", c, NoValue, NoPattern, NoGuard, m,
             debug_assert_some(debug_assertions, c, m))

Call_assert_none ==
    \E c \in OptionValues, m \in Msgs :
        Call("assert_none", c, NoValue, NoPattern, NoGuard, m, assert_none(c, m))

Call_debug_assert_none ==
    \E c \in OptionValues, m \in Msgs :
        Call("debug_assert_none", c, NoValue, NoPattern, NoGuard, m,
             debug_assert_none(debug_assertions, c, m))

Call_assert_pending ==
    \E c \in PollValues \cup PollResultValues, m \in Msgs :
        Call("assert_pending", c, NoValue, NoPattern, NoGuard, m, assert_pending(c, m))

Call_debug_assert_pending ==
    \E c \in PollValues \cup PollResultValues, m \in Msgs :
        Call("debug_assert_pending", c, NoValue, NoPattern, NoGuard, m,
             debug_assert_pending(debug_assertions, c, m))

Call_assert_ready ==
    \E c \in ReadyInputs, m \in Msgs :
        Call("assert_ready", c, NoValue, NoPattern, NoGuard, m, assert_ready(c, m))

Call_debug_assert_ready ==
    \E c \in ReadyInputs, m \in Msgs :
        Call("debug_assert_ready", c, NoValue, NoPattern, NoGuard, m,
             debug_assert_ready(debug_assertions, c, m))

Call_assert_ready_ok ==
    \E c \in ReadyOkInputs, m \in Msgs :
        Call("assert_ready_ok", c, NoValue, NoPattern, NoGuard, m, assert_ready_ok(c, m))

Call_debug_assert_ready_ok ==
    \E c \in ReadyOkInputs, m \in Msgs :
        Call("debug_assert_ready_ok", c, NoValue, NoPattern, NoGuard, m,
             debug_assert_ready_ok(debug_assertions, c, m))

Call_assert_ready_err ==
    \E c \in PollResultValues, m \in Msgs :
        Call("assert_ready_err", c, NoValue, NoPattern, NoGuard, m, assert_ready_err(c, m))

Call_debug_assert_ready_err ==
    \E c \in PollResultValues, m \in Msgs :
        Call("debug_assert_ready_err", c, NoValue, NoPattern, NoGuard, m,
             debug_assert_ready_err(debug_assertions, c, m))

Call_assert_ok_eq ==
    \E c \in ResultValues, e \in IntValues, m \in Msgs :
        Call("assert_ok_eq", c, e, NoPattern, NoGuard, m, assert_ok_eq(c, e, m))

Call_debug_assert_ok_eq ==
    \E c \in ResultValues, e \in IntValues, m \in Msgs :
        Call("debug_assert_ok_eq", c, e, NoPattern, NoGuard, m,
             debug_assert_ok_eq(debug_assertions, c, e, m))

Call_assert_err_eq ==
    \E c \in ResultValues, e \in IntValues, m \in Msgs :
        Call("assert_err_eq", c, e, NoPattern, NoGuard, m, assert_err_eq(c, e, m))

Call_debug_assert_err_eq ==
    \E c \in ResultValues, e \in IntValues, m \in Msgs :
        Call("debug_assert_err_eq", c, e, NoPattern, NoGuard, m,
             debug_assert_err_eq(debug_assertions, c, e, m))

Call_assert_some_eq ==
    \E c \in OptionValues, e \in IntValues, m \in Msgs :
        Call("assert_some_eq", c, e, NoPattern, NoGuard, m, assert_some_eq(c, e, m))

Call_debug_assert_some_eq ==
    \E c \in OptionValues, e \in IntValues, m \in Msgs :
        Call("debug_assert_some_eq", c, e, NoPattern, NoGuard, m,
             debug_assert_some_eq(debug_assertions, c, e, m))

Call_assert_ready_eq ==
    \E c \in PollValues, e \in IntValues, m \in Msgs :
        Call("assert_ready_eq", c, e, NoPattern, NoGuard, m, assert_ready_eq(c, e, m))

Call_debug_assert_ready_eq ==
    \E c \in PollValues, e \in IntValues, m \in Msgs :
        Call("debug_assert_ready_eq", c, e, NoPattern, NoGuard, m,
             debug_assert_ready_eq(debug_assertions, c, e, m))

\* assert_ge compiled only with debug_assertions.
Call_assert_ge_gated ==
    \E l \in IntValues, r \in IntValues, m \in Msgs :
        Call("assert_ge", l, r, NoPattern, NoGuard, m,
             IF debug_assertions THEN assert_ge(l, r, m) ELSE Skipped)

Call_assert_ge ==
    \E l \in IntValues, r \in IntValues, m \in Msgs :
        Call("assert_ge", l, r, NoPattern, NoGuard, m, assert_ge(l, r, m))

Call_debug_assert_ge ==
    \E l \in IntValues, r \in IntValues, m \in Msgs :
        Call("debug_assert_ge", l, r, NoPattern, NoGuard, m,
             debug_assert_ge(debug_assertions, l, r, m))

Call_assert_gt ==
    \E l \in IntValues, r \in IntValues, m \in Msgs :
        Call("assert_gt", l, r, NoPattern, NoGuard, m, assert_gt(l, r, m))

Call_debug_assert_gt ==
    \E l \in IntValues, r \in IntValues, m \in Msgs :
        Call("debug_assert_gt", l, r, NoPattern, NoGuard, m,
             debug_assert_gt(debug_assertions, l, r, m))

Call_assert_le ==
    \E l \in IntValues, r \in IntValues, m \in Msgs :
        Call("assert_le", l, r, NoPattern, NoGuard, m, assert_le(l, r, m))

Call_debug_assert_le ==
    \E l \in IntValues, r \in IntValues, m \in Msgs :
        Call("debug_assert_le", l, r, NoPattern, NoGuard, m,
             debug_assert_le(debug_assertions, l, r, m))

Call_assert_lt ==
    \E l \in IntValues, r \in IntValues, m \in Msgs :
        Call("assert_lt", l, r, NoPattern, NoGuard, m, assert_lt(l, r, m))

Call_debug_assert_lt ==
    \E l \in IntValues, r \in IntValues, m \in Msgs :
        Call("debug_assert_lt", l, r, NoPattern, NoGuard, m,
             debug_assert_lt(debug_assertions, l, r, m))

Call_assert_matches ==
    \E v \in FooValues, pg \in PatternArgs, m \in Msgs :
        Call("assert_matches", v, NoValue, pg[1], pg[2], m,
             assert_matches(v, pg[1], pg[2], m))

Call_debug_assert_matches ==
    \E v \in FooValues, pg \in PatternArgs, m \in Msgs :
        Call("debug_assert_matches", v, NoValue, pg[1], pg[2], m,
             debug_assert_matches(debug_assertions, v, pg[1], pg[2], m))

Next ==
    \/ Call_assert_ok
    \/ Call_debug_assert_ok
    \/ Call_assert_err
    \/ Call_debug_assert_err
    \/ Call_assert_some
    \/ Call_debug_assert_some
    \/ Call_assert_none
    \/ Call_debug_assert_none
    \/ Call_assert_pending
    \/ Call_debug_assert_pending
    \/ Call_assert_ready
    \/ Call_debug_assert_ready
    \/ Call_assert_ready_ok
    \/ Call_debug_assert_ready_ok
    \/ Call_assert_ready_err
    \/ Call_debug_assert_ready_err
    \/ Call_assert_ok_eq
    \/ Call_debug_assert_ok_eq
    \/ Call_assert_err_eq
    \/ Call_debug_assert_err_eq
    \/ Call_assert_some_eq
    \/ Call_debug_assert_some_eq
    \/ Call_assert_ready_eq
    \/ Call_debug_assert_ready_eq
    \/ Call_assert_ge
    \/ Call_debug_assert_ge
    \/ Call_assert_gt
    \/ Call_debug_assert_gt
    \/ Call_assert_le
    \/ Call_debug_assert_le
    \/ Call_assert_lt
    \/ Call_debug_assert_lt
    \/ Call_assert_matches
    \/ Call_debug_assert_matches

Spec == Init /\ [][Next]_vars

----------------------------------------------------------------------------
(* Vocabulary of the properties *)

StartsWith(s, p) == Len(s) >= Len(p) /\ SubSeq(s, 1, Len(p)) = p
EndsWith(s, p) == Len(s) >= Len(p) /\ SubSeq(s, Len(s) - Len(p) + 1, Len(s)) = p
Contains(s, p) == \E i \in 0..(Len(s) - Len(p)) : SubSeq(s, i + 1, i + Len(p)) = p

UnwrappingMacros == {"assert_ok", "assert_err", "assert_some", "assert_ready",
                     "assert_ready_ok", "assert_ready_err"}
EqMacros == {"assert_ok_eq", "assert_err_eq", "assert_some_eq", "assert_ready_eq"}
VariantMacros == UnwrappingMacros \cup EqMacros \cup {"assert_none", "assert_pending"}
RelationalMacros == {"assert_ge", "assert_gt", "assert_le", "assert_lt"}
StrictMacros == VariantMacros \cup RelationalMacros \cup {"assert_matches"}
DebugMacros == {"debug_" \o m : m \in StrictMacros}

\* The constructors a value must start with to be of the variant the macro
\* expects, and the description of that variant in the panic message.
ExpectedPath(macro) ==
    CASE macro \in {"assert_ok", "assert_ok_eq"} -> <<"Ok">>
      [] macro \in {"assert_err", "assert_err_eq"} -> <<"Err">>
      [] macro \in {"assert_some", "assert_some_eq"} -> <<"Some">>
      [] macro = "assert_none" -> <<"None">>
      [] macro = "assert_pending" -> <<"Pending">>
      [] macro \in {"assert_ready", "assert_ready_eq"} -> <<"Ready">>
      [] macro = "assert_ready_ok" -> <<"Ready", "Ok">>
      [] macro = "assert_ready_err" -> <<"Ready", "Err">>

ExpectedDesc(macro) ==
    CASE macro \in {"assert_ok", "assert_ok_eq"} -> "expected Ok(_)"
      [] macro \in {"assert_err", "assert_err_eq"} -> "expected Err(_)"
      [] macro \in {"assert_some", "assert_some_eq"} -> "expected Some(_)"
      [] macro = "assert_none" -> "expected None"
      [] macro = "assert_pending" -> "expected Pending"
      [] macro \in {"assert_ready", "assert_ready_eq"} -> "expected Ready(_)"
      [] macro = "assert_ready_ok" -> "expected Ready(Ok(_))"
      [] macro = "assert_ready_err" -> "expected Ready(Err(_))"

IsExpectedVariant(macro, v) ==
    LET path == ExpectedPath(macro)
    IN  Len(v.tags) >= Len(path) /\ SubSeq(v.tags, 1, Len(path)) = path

\* The payload of a value of the expected variant.
PayloadOf(macro, v) ==
    LET n == Len(ExpectedPath(macro))
    IN  [tags |-> SubSeq(v.tags, n + 1, Len(v.tags)), args |-> v.args]

----------------------------------------------------------------------------
(* C1: an unwrapping assertion (assert_ok, assert_err, assert_some,        *)
(* assert_ready, assert_ready_ok, assert_ready_err) called on a value of   *)
(* its expected variant does not panic and returns exactly the payload     *)
(* wrapped in that variant, with or without a custom message.              *)
C1_UnwrapReturnsPayload ==
    (input.macro \in UnwrappingMacros /\ IsExpectedVariant(input.macro, input.cond))
        => /\ outcome.kind = "returned"
           /\ outcome.value = PayloadOf(input.macro, input.cond)
           /\ pc = "running"

C1_Witness ==
    /\ input.macro = "assert_ready_err"
    /\ input.cond = Ready(Err(Int_(1)))
    /\ input.msg # NoMsg
    /\ outcome.kind = "returned"
    /\ outcome.value = Int_(1)

(* C2: a variant assertion called on a value of a non-expected variant     *)
(* panics, and the panic message is "assertion failed, ", the fixed        *)
(* description of the expected variant, ", got " and the debug rendering   *)
(* of the actual value, optionally followed by ": " and a custom message.  *)
C2_MismatchMessage ==
    (input.macro \in VariantMacros /\ ~IsExpectedVariant(input.macro, input.cond))
        => LET body == "assertion failed, " \o ExpectedDesc(input.macro)
                           \o ", got " \o Debug(input.cond)
           IN  /\ outcome.kind = "panicked"
               /\ pc = "panicked"
               /\ IF input.msg = NoMsg
                  THEN outcome.message = body
                  ELSE StartsWith(outcome.message, body \o ": ")

C2_Witness ==
    /\ input.macro = "assert_ready_ok"
    /\ input.cond = Ready(Err(Int_(1)))
    /\ outcome.kind = "panicked"
    /\ outcome.message = "assertion failed, expected Ready(Ok(_)), got Ready(Err(1))"

(* C3: an equality assertion (assert_ok_eq, assert_err_eq, assert_some_eq, *)
(* assert_ready_eq) completes without panicking if and only if the         *)
(* inspected value is of the expected variant and its payload equals the   *)
(* expected value, and it then returns the actual payload.                 *)
C3_EqPassesIffEqual ==
    input.macro \in EqMacros
        => /\ outcome.kind \in {"returned", "panicked"}
           /\ outcome.kind = "returned"
                  <=> /\ IsExpectedVariant(input.macro, input.cond)
                      /\ PayloadOf(input.macro, input.cond) = input.expected
           /\ outcome.kind = "returned"
                  => outcome.value = PayloadOf(input.macro, input.cond)

C3_Witness ==
    /\ input.macro = "assert_some_eq"
    /\ input.cond = Some(Int_(1))
    /\ input.expected = Int_(1)
    /\ outcome.kind = "returned"
    /\ outcome.value = Int_(1)

C3_WitnessUnequal ==
    /\ input.macro = "assert_ok_eq"
    /\ input.cond = Ok(Int_(0))
    /\ input.expected = Int_(1)
    /\ outcome.kind = "panicked"

\* The first line of core::assert_eq!'s failure message.
EqCheckHead == "assertion " \o BT \o "left == right" \o BT \o " failed"

(* C4: in an equality assertion the variant check comes first: on a value  *)
(* of the wrong variant the call panics with the variant-mismatch message  *)
(* ("assertion failed, expected Err(_)" ..), whatever the expected value,  *)
(* and never with the equality check's message.                            *)
C4_VariantBeforeEquality ==
    (input.macro \in EqMacros /\ ~IsExpectedVariant(input.macro, input.cond))
        => /\ outcome.kind = "panicked"
           /\ outcome.message = "assertion failed, " \o ExpectedDesc(input.macro)
                                    \o ", got " \o Debug(input.cond)
                                    \o Suffix(input.msg)
           /\ ~Contains(outcome.message, "left == right")

C4_Witness ==
    /\ input.macro = "assert_err_eq"
    /\ input.cond = Ok(Int_(0))
    /\ input.expected = Int_(1)
    /\ outcome.kind = "panicked"
    /\ StartsWith(outcome.message, "assertion failed, expected Err(_)")

(* C5: when an equality assertion sees the expected variant but the        *)
(* payload differs from the expected value, it panics with the message of  *)
(* core's assert_eq (naming both sides), never with the crate's            *)
(* "assertion failed, expected <variant>" message.                         *)
C5_UnequalUsesEqMessage ==
    (/\ input.macro \in EqMacros
     /\ IsExpectedVariant(input.macro, input.cond)
     /\ PayloadOf(input.macro, input.cond) # input.expected)
        => /\ outcome.kind = "panicked"
           /\ StartsWith(outcome.message, EqCheckHead)
           /\ Contains(outcome.message,
                       "left: " \o Debug(PayloadOf(input.macro, input.cond)))
           /\ Contains(outcome.message, "right: " \o Debug(input.expected))
           /\ ~Contains(outcome.message, "assertion failed, expected")

C5_Witness ==
    /\ input.macro = "assert_ready_eq"
    /\ input.cond = Ready(Int_(1))
    /\ input.expected = Int_(0)
    /\ outcome.kind = "panicked"
    /\ StartsWith(outcome.message, EqCheckHead)

(* C6: assert_ge(a, b) passes iff a >= b, assert_gt iff a > b, assert_le   *)
(* iff a <= b, assert_lt iff a < b; otherwise the call panics.  A passing  *)
(* call yields no value (the unit value).                                  *)
C6_RelationalIff ==
    input.macro \in RelationalMacros
        => LET a == input.cond.args[1]
               b == input.expected.args[1]
               holds == CASE input.macro = "assert_ge" -> a >= b
                          [] input.macro = "assert_gt" -> a > b
                          [] input.macro = "assert_le" -> a <= b
                          [] input.macro = "assert_lt" -> a < b
           IN  /\ holds => outcome.kind = "returned" /\ outcome.value = Unit
               /\ ~holds => outcome.kind = "panicked" /\ pc = "panicked"

C6_Witness ==
    /\ input.macro = "assert_gt"
    /\ input.cond = input.expected
    /\ outcome.kind = "panicked"

C6_WitnessEqualPasses ==
    /\ input.macro = "assert_le"
    /\ input.cond = input.expected
    /\ outcome.kind = "returned"

(* C7: assert_matches passes if and only if the value matches at least one *)
(* of the alternative patterns and, when a guard is given, the guard is    *)
(* true of it; in every other case it panics.                              *)
C7_MatchesIff ==
    input.macro = "assert_matches"
        => LET ok == \E i \in 1..Len(input.pattern) :
                         /\ AltMatches(input.cond, input.pattern[i])
                         /\ input.guard # NoGuard
                                => GuardHolds(input.guard, input.cond)
           IN  /\ ok => outcome.kind = "returned"
               /\ ~ok => outcome.kind = "panicked" /\ pc = "panicked"

C7_Witness ==
    /\ input.macro = "assert_matches"
    /\ Len(input.pattern) = 2
    /\ ~AltMatches(input.cond, input.pattern[1])
    /\ AltMatches(input.cond, input.pattern[2])
    /\ input.guard # NoGuard
    /\ outcome.kind = "returned"

C7_WitnessGuardFails ==
    /\ input.macro = "assert_matches"
    /\ AltMatches(input.cond, input.pattern[1])
    /\ input.guard # NoGuard
    /\ outcome.kind = "panicked"

\* The outcome of the strict macro a debug_* call forwards its arguments to.
StrictCounterpart(i) ==
    CASE i.macro = "debug_assert_ok" -> assert_ok(i.cond, i.msg)
      [] i.macro = "debug_assert_err" -> assert_err(i.cond, i.msg)
      [] i.macro = "debug_assert_some" -> assert_some(i.cond, i.msg)
      [] i.macro = "debug_assert_none" -> assert_none(i.cond, i.msg)
      [] i.macro = "debug_assert_pending" -> assert_pending(i.cond, i.msg)
      [] i.macro = "debug_assert_ready" -> assert_ready(i.cond, i.msg)
      [] i.macro = "debug_assert_ready_ok" -> assert_ready_ok(i.cond, i.msg)
      [] i.macro = "debug_assert_ready_err" -> assert_ready_err(i.cond, i.msg)
      [] i.macro = "debug_assert_ok_eq" -> assert_ok_eq(i.cond, i.expected, i.msg)
      [] i.macro = "debug_assert_err_eq" -> assert_err_eq(i.cond, i.expected, i.msg)
      [] i.macro = "debug_assert_some_eq" -> assert_some_eq(i.cond, i.expected, i.msg)
      [] i.macro = "debug_assert_ready_eq" -> assert_ready_eq(i.cond, i.expected, i.msg)
      [] i.macro = "debug_assert_ge" -> assert_ge(i.cond, i.expected, i.msg)
      [] i.macro = "debug_assert_gt" -> assert_gt(i.cond, i.expected, i.msg)
      [] i.macro = "debug_assert_le" -> assert_le(i.cond, i.expected, i.msg)
      [] i.macro = "debug_assert_lt" -> assert_lt(i.cond, i.expected, i.msg)
      [] i.macro = "debug_assert_matches"
             -> assert_matches(i.cond, i.pattern, i.guard, i.msg)

(* C8: in a build with debug_assertions every debug_assert_* macro passes  *)
(* exactly when its strict counterpart passes on the same arguments, and   *)
(* when it panics the message is the strict macro's message, custom        *)
(* message included; this holds for all 17 pairs.                          *)
C8_DebugBuildSameAsStrict ==
    (debug_assertions /\ input.macro \in DebugMacros)
        => LET s == StrictCounterpart(input)
           IN  /\ outcome.kind \in {"returned", "panicked"}
               /\ outcome.kind = "panicked" <=> s.kind = "panicked"
               /\ outcome.message = s.message

C8_Witness ==
    /\ debug_assertions
    /\ input.macro = "debug_assert_gt"
    /\ input.cond = input.expected
    /\ input.msg # NoMsg
    /\ outcome.kind = "panicked"
    /\ EndsWith(outcome.message, ": foo")

C8_WitnessPasses ==
    /\ debug_assertions
    /\ input.macro = "debug_assert_ready_eq"
    /\ input.cond = Ready(Int_(1))
    /\ input.expected = Int_(1)
    /\ outcome.kind = "returned"

(* C9: in a build without debug_assertions no debug_assert_* call panics,  *)
(* whatever its arguments; the caller continues past the call.             *)
C9_ReleaseNeverPanics ==
    (~debug_assertions /\ input.macro \in DebugMacros)
        => outcome.kind # "panicked" /\ pc = "running"

C9_Witness ==
    /\ ~debug_assertions
    /\ input.macro = "debug_assert_err_eq"
    /\ input.cond = Ok(Int_(0))
    /\ input.expected = Int_(1)
    /\ outcome.kind = "skipped"
    /\ pc = "running"

(* C10: in a build without debug_assertions a debug_assert_* call          *)
(* evaluates none of its argument expressions, for the macros gated with   *)
(* #[cfg(debug_assertions)] and for debug_assert_gt and                    *)
(* debug_assert_ready_eq, gated with `if cfg!(debug_assertions)`.          *)
C10_ReleaseEvaluatesNothing ==
    (~debug_assertions /\ input.macro \in DebugMacros) => evals = <<>>

C10_Witness ==
    /\ ~debug_assertions
    /\ input.macro = "debug_assert_ready_eq"
    /\ input.cond = Pending
    /\ input.msg # NoMsg
    /\ input.msg[1].args # <<>>
    /\ evals = <<>>

\* The result of a strict macro on the arguments of a call, computed from
\* the arguments alone.
StrictResult(i) == StrictCounterpart([i EXCEPT !.macro = "debug_" \o i.macro])

(* C11: the strict assertions are checked in both build configurations and *)
(* cannot be disabled: whatever debug_assertions is, a strict macro call   *)
(* is never skipped and its outcome (value or panic message) is the one    *)
(* its arguments alone determine.                                          *)
C11_StrictSameInBothBuilds ==
    input.macro \in StrictMacros
        => LET s == StrictResult(input)
           IN  /\ outcome.kind \in {"returned", "panicked"}
               /\ outcome = [kind |-> s.kind, value |-> s.value,
                             message |-> s.message]
               /\ evals # <<>>

C11_Witness ==
    /\ ~debug_assertions
    /\ input.macro = "assert_ge"
    /\ input.cond = Int_(0)
    /\ input.expected = Int_(1)
    /\ outcome.kind = "panicked"

C11_WitnessDebug ==
    /\ debug_assertions
    /\ input.macro = "assert_ge"
    /\ input.cond = Int_(0)
    /\ input.expected = Int_(1)
    /\ outcome.kind = "panicked"

\* The strict macro behind a call: the macro itself, or the one a debug_*
\* macro forwards to.
BaseMacro(name) == IF name \in DebugMacros THEN SubSeq(name, 7, Len(name)) ELSE name

\* The custom messages of the model as the caller reads them.
MsgText(msg) ==
    CASE msg[1].text = "foo" -> "foo"
      [] msg[1].text = "v=" -> "v=1"

(* C12: whenever a call that was given a custom message panics, by any     *)
(* failure path (wrong variant, unequal payload, failed relation, failed   *)
(* pattern match), the custom message with its arguments interpolated      *)
(* appears verbatim in the panic message.                                  *)
C12_CustomMessageAppears ==
    (input.msg # NoMsg /\ outcome.kind = "panicked")
        => Contains(outcome.message, MsgText(input.msg))

C12_Witness ==
    /\ input.macro = "assert_some_eq"
    /\ input.cond = Some(Int_(0))
    /\ input.expected = Int_(1)
    /\ input.msg # NoMsg
    /\ input.msg[1].args # <<>>
    /\ outcome.kind = "panicked"
    /\ Contains(outcome.message, "v=1")

\* The panic text of the same call without a custom message.
DefaultText(i) ==
    StrictResult([i EXCEPT !.macro = BaseMacro(i.macro), !.msg = NoMsg]).message

\* The call failed with a text of the crate: not inside core's assert_eq!.
FailedWithOwnText ==
    /\ outcome.kind = "panicked"
    /\ BaseMacro(input.macro) \in EqMacros
           => ~IsExpectedVariant(BaseMacro(input.macro), input.cond)

(* C13: when the call without a custom message panics with the crate's own *)
(* default text D (variant mismatch, failed relation, failed pattern       *)
(* match), the same call with custom message M panics with exactly D, then *)
(* ": ", then the formatted M; the message ends with M.                    *)
C13_DefaultThenCustom ==
    (input.msg # NoMsg /\ FailedWithOwnText)
        => /\ outcome.message = DefaultText(input) \o ": " \o MsgText(input.msg)
           /\ EndsWith(outcome.message, MsgText(input.msg))
           /\ DefaultText(input) # ""

C13_Witness ==
    /\ input.macro = "assert_some"
    /\ input.cond = None
    /\ input.msg # NoMsg
    /\ outcome.kind = "panicked"
    /\ outcome.message = "assertion failed, expected Some(_), got None: foo"

\* The operator a relational macro tests.
RelationOf(name) ==
    CASE name = "assert_ge" -> ">="
      [] name = "assert_gt" -> ">"
      [] name = "assert_le" -> "<="
      [] name = "assert_lt" -> "<"

(* C14 as stated: the panic message of a failing relational assertion      *)
(* contains "left: " immediately followed by the debug rendering of the    *)
(* left operand and "right: " immediately followed by the debug rendering  *)
(* of the right operand (assert_ge(1, 3): "left: 1" and "right: 3").       *)
C14_Original ==
    (input.macro \in RelationalMacros /\ outcome.kind = "panicked")
        => /\ Contains(outcome.message, "left: " \o Debug(input.cond))
           /\ Contains(outcome.message, "right: " \o Debug(input.expected))

(* C14 amended: the panic message of a failing relational assertion names  *)
(* the relation and shows both operands, each enclosed in backticks: it    *)
(* contains "left: `L`" and "right: `R`" with L and R the debug renderings *)
(* of the left and the right operand.                                      *)
C14_OperandsInBackticks ==
    (input.macro \in RelationalMacros /\ outcome.kind = "panicked")
        => /\ StartsWith(outcome.message,
                         "assertion failed: " \o BT \o "(left "
                             \o RelationOf(input.macro) \o " right)" \o BT)
           /\ Contains(outcome.message,
                       "left: " \o BT \o Debug(input.cond) \o BT)
           /\ Contains(outcome.message,
                       "right: " \o BT \o Debug(input.expected) \o BT)

C14_Witness ==
    /\ input.macro = "assert_ge"
    /\ input.cond = Int_(0)
    /\ input.expected = Int_(1)
    /\ input.msg = NoMsg
    /\ outcome.kind = "panicked"
    /\ Contains(outcome.message, "right: " \o BT \o "1" \o BT)

(* C15: on {Ready(Ok(p)), Ready(Err(e)), Pending}, assert_ready_ok returns *)
(* p on Ready(Ok(p)) and panics on the other two; assert_ready_err returns *)
(* e on Ready(Err(e)) and panics on the other two; each panic message      *)
(* shows the value received after "got ".                                  *)
C15_ThreeStateUnion ==
    input.macro \in {"assert_ready_ok", "assert_ready_err"}
        => LET want == IF input.macro = "assert_ready_ok" THEN "Ok" ELSE "Err"
           IN  IF Len(input.cond.tags) >= 2
                      /\ SubSeq(input.cond.tags, 1, 2) = <<"Ready", want>>
               THEN /\ outcome.kind = "returned"
                    /\ outcome.value = Inner(Inner(input.cond))
               ELSE /\ outcome.kind = "panicked"
                    /\ input.cond = Pending
                           => Contains(outcome.message, "got Pending")
                    /\ input.cond # Pending
                           => Contains(outcome.message,
                                       "got " \o Debug(input.cond))

C15_Witness ==
    /\ input.macro = "assert_ready_err"
    /\ input.cond = Ready(Ok(Int_(1)))
    /\ outcome.kind = "panicked"
    /\ Contains(outcome.message, "Ready(Ok(1))")

C15_WitnessPending ==
    /\ input.macro = "assert_ready_ok"
    /\ input.cond = Pending
    /\ outcome.kind = "panicked"

(* C16: an assertion mismatch is immediately fatal to the caller: a failed *)
(* call returns no value and leaves the caller panicked, and from then on  *)
(* no step is taken: no later call, no retry.                              *)
C16_MismatchIsFatal ==
    /\ [](outcome.kind = "panicked" => pc = "panicked" /\ outcome.value = Unit)
    /\ [][pc = "panicked" => UNCHANGED vars]_vars

C16_Witness ==
    /\ pc = "panicked"
    /\ outcome.kind = "panicked"
    /\ ncalls < MaxCalls
    /\ input.macro = "assert_pending"

\* The result of any macro call on its arguments in a given build.
CallResult(i, dbg) ==
    IF i.macro \in DebugMacros
    THEN IF dbg THEN Statement(StrictCounterpart(i)) ELSE Skipped
    ELSE StrictResult(i)

(* C17: a passing assertion has no side effect and no assertion keeps      *)
(* state between calls: a call leaves the build flag alone, a passing call *)
(* leaves the caller running, and the outcome and the expressions          *)
(* evaluated are those of this call's arguments alone, whatever was called *)
(* before.                                                                 *)
C17_NoStateBetweenCalls ==
    /\ [][/\ debug_assertions' = debug_assertions
          /\ outcome'.kind # "panicked" => pc' = pc]_vars
    /\ [](ncalls > 0
              => LET r == CallResult(input, debug_assertions)
                 IN  /\ outcome = [kind |-> r.kind, value |-> r.value,
                                   message |-> r.message]
                     /\ evals = r.evals)

C17_Witness ==
    /\ ncalls = 2
    /\ pc = "running"
    /\ input.macro = "assert_le"
    /\ outcome.kind = "returned"
    /\ evals = <<"left", "right">>

----------------------------------------------------------------------------
(* Concurrent callers.  Each thread makes one macro call: it enters the    *)
(* macro with its arguments, and later the macro completes or panics in    *)
(* that thread.  The steps of different threads interleave freely.         *)

ThreadCalls ==
    {[macro |-> "assert_ok_eq", cond |-> c, expected |-> e,
      pattern |-> NoPattern, guard |-> NoGuard, msg |-> m] :
         c \in ResultValues, e \in IntValues,
         m \in {NoMsg, <<[text |-> "foo", args |-> <<>>]>>}}
    \cup {[macro |-> "assert_pending", cond |-> c, expected |-> NoValue,
           pattern |-> NoPattern, guard |-> NoGuard, msg |-> NoMsg] :
              c \in PollValues}

T_Call(t) ==
    /\ tpc[t] = "idle"
    /\ \E i \in ThreadCalls : tinput' = [tinput EXCEPT ![t] = i]
    /\ tpc' = [tpc EXCEPT ![t] = "called"]
    /\ UNCHANGED <<debug_assertions, pc, ncalls, input, outcome, evals, places, toutcome>>

\* A macro that keeps the inspected value in one slot shared by all threads:
\* the thread completes with the arguments of the first thread that called.
T_Return_shared(t) ==
    /\ tpc[t] = "called"
    /\ LET owner == CHOOSE u \in Threads :
                        /\ tpc[u] # "idle"
                        /\ \A w \in Threads : tpc[w] # "idle" => u <= w
           r == CallResult(tinput[owner], debug_assertions)
       IN  /\ toutcome' = [toutcome EXCEPT ![t] =
                              [kind |-> r.kind, value |-> r.value,
                               message |-> r.message]]
           /\ tpc' = [tpc EXCEPT ![t] =
                         IF r.kind = "panicked" THEN "panicked" ELSE "returned"]
    /\ UNCHANGED <<debug_assertions, pc, ncalls, input, outcome, evals, places, tinput>>

T_Return(t) ==
    /\ tpc[t] = "called"
    /\ LET r == CallResult(tinput[t], debug_assertions)
       IN  /\ toutcome' = [toutcome EXCEPT ![t] =
                              [kind |-> r.kind, value |-> r.value,
                               message |-> r.message]]
           /\ tpc' = [tpc EXCEPT ![t] =
                         IF r.kind = "panicked" THEN "panicked" ELSE "returned"]
    /\ UNCHANGED <<debug_assertions, pc, ncalls, input, outcome, evals, places, tinput>>

NextThreads == \E t \in Threads : T_Call(t) \/ T_Return(t)

SpecThreads == Init /\ [][NextThreads]_vars

(* C18: assertions running concurrently in independent threads need no     *)
(* coordination: under every interleaving, each thread's call ends with    *)
(* the outcome (value or panic message) the same call has when it runs     *)
(* alone, and a panic in one thread leaves the other threads' calls alone. *)
C18_ThreadsIndependent ==
    \A t \in Threads :
        /\ tpc[t] \in {"returned", "panicked"}
               => LET r == StrictResult(tinput[t])
                  IN  /\ toutcome[t] = [kind |-> r.kind, value |-> r.value,
                                        message |-> r.message]
                      /\ tpc[t] = "panicked" <=> r.kind = "panicked"
        /\ tpc[t] \in {"idle", "called"} => toutcome[t] = NoOutcome

C18_Witness ==
    /\ tpc[1] = "panicked"
    /\ tpc[2] = "returned"
    /\ tinput[1].macro = "assert_ok_eq"
    /\ tinput[2].macro = "assert_ok_eq"
    /\ tinput[1].cond = tinput[2].cond
    /\ tinput[1].expected # tinput[2].expected

(* C19: a debug_assert_* macro whose strict counterpart unwraps a payload  *)
(* (ok, err, some, ready, ready_ok, ready_err and the *_eq forms) does not *)
(* return the contained value: on a matching value it yields no value, in  *)
(* a build with debug_assertions (where it passes) and in one without      *)
(* (where it is skipped).                                                  *)
C19_DebugYieldsNoValue ==
    (/\ input.macro \in DebugMacros
     /\ BaseMacro(input.macro) \in UnwrappingMacros \cup EqMacros
     /\ IsExpectedVariant(BaseMacro(input.macro), input.cond)
     /\ BaseMacro(input.macro) \in EqMacros
            => PayloadOf(BaseMacro(input.macro), input.cond) = input.expected)
        => /\ outcome.value = Unit
           /\ outcome.value # PayloadOf(BaseMacro(input.macro), input.cond)
           /\ outcome.kind = IF debug_assertions THEN "returned" ELSE "skipped"

C19_Witness ==
    /\ debug_assertions
    /\ input.macro = "debug_assert_some_eq"
    /\ input.cond = Some(Int_(1))
    /\ input.expected = Int_(1)
    /\ outcome.kind = "returned"
    /\ outcome.value = Unit

C19_WitnessRelease ==
    /\ ~debug_assertions
    /\ input.macro = "debug_assert_ok"
    /\ input.cond = Ok(Int_(1))
    /\ outcome.kind = "skipped"

(* C20: assert_pending called on Poll::Pending does not panic and returns  *)
(* Poll::Pending; assert_none called on None does not panic and evaluates  *)
(* to None.                                                                *)
C20_PendingAndNoneReturned ==
    /\ (input.macro = "assert_pending" /\ input.cond = Pending)
           => outcome.kind = "returned" /\ outcome.value = Pending
    /\ (input.macro = "assert_none" /\ input.cond = None)
           => outcome.kind = "returned" /\ outcome.value = None

C20_Witness ==
    /\ input.macro = "assert_pending"
    /\ input.cond = Pending
    /\ input.msg # NoMsg
    /\ outcome.kind = "returned"
    /\ outcome.value = Pending

C20_WitnessNone ==
    /\ input.macro = "assert_none"
    /\ input.cond = None
    /\ outcome.kind = "returned"
    /\ outcome.value = None

----------------------------------------------------------------------------
\* How many times an argument expression was evaluated in a call.
Count(ev, e) == Cardinality({k \in 1..Len(ev) : ev[k] = e})

ReadyMacros == {"assert_ready", "assert_ready_ok", "assert_ready_err",
                "assert_ready_eq"}

(* C21: every assertion call is a single-shot evaluation with exactly one  *)
(* of two outcomes: it completes (with the payload or with nothing) or it  *)
(* panics; every step of the caller is one whole call, begun and ended.    *)
(* assert_ready, assert_ready_ok, assert_ready_err and assert_ready_eq on  *)
(* Pending panic in that same step, having evaluated the inspected         *)
(* expression once: they do not poll again or wait for a Ready value.      *)
C21_SingleShot ==
    /\ [](/\ input.macro \in StrictMacros
              => outcome.kind \in {"returned", "panicked"}
          /\ input.macro \in DebugMacros
              => outcome.kind \in {"returned", "panicked", "skipped"}
          /\ outcome.kind = "panicked" <=> pc = "panicked"
          /\ (BaseMacro(input.macro) \in ReadyMacros /\ input.cond = Pending
                  /\ outcome.kind # "skipped")
              => /\ outcome.kind = "panicked"
                 /\ Count(evals, "cond") = 1
                 /\ Count(evals, "expected") = 0)
    /\ [][/\ ncalls' = ncalls + 1
          /\ input'.macro \in StrictMacros \cup DebugMacros
          /\ outcome'.kind \in {"returned", "panicked", "skipped"}]_vars

C21_Witness ==
    /\ input.macro = "assert_ready"
    /\ input.cond = Pending
    /\ outcome.kind = "panicked"
    /\ outcome.message = "assertion failed, expected Ready(_), got Pending"
    /\ evals = <<"cond">>

C21_WitnessReadyEq ==
    /\ input.macro = "assert_ready_eq"
    /\ input.cond = Pending
    /\ outcome.kind = "panicked"
    /\ evals = <<"cond">>

----------------------------------------------------------------------------
\* The source text of a guard as the caller wrote it.
GuardText(guard) == "if x " \o guard[1].op \o " " \o ToString(guard[1].k)

(* C22: when assert_matches fails, because no alternative matches or       *)
(* because an alternative matches and the guard is false, the panic        *)
(* message contains "expression: " with the debug rendering of the         *)
(* evaluated expression, then "pattern: " with the source text of the      *)
(* whole pattern: every alternative and the `if <guard>` clause; the       *)
(* message ends there, or with ": " and the custom message when one is     *)
(* given.                                                                  *)
C22_MatchesFailureMessage ==
    (BaseMacro(input.macro) = "assert_matches" /\ outcome.kind = "panicked")
        => LET m == outcome.message
               pat == PatternText(input.pattern, input.guard)
           IN  /\ Contains(m, "\n    expression: " \o Debug(input.cond)
                                  \o "\n    pattern: " \o pat)
               /\ \A k \in 1..Len(input.pattern) :
                      Contains(m, AltText(input.pattern[k]))
               /\ input.guard # NoGuard
                      => /\ EndsWith(pat, " " \o GuardText(input.guard))
                         /\ Contains(m, GuardText(input.guard))
               /\ EndsWith(m, "pattern: " \o pat
                                  \o (IF input.msg = NoMsg THEN ""
                                      ELSE ": " \o MsgText(input.msg)))

\* An alternative matches and the guard is false.
C22_Witness ==
    /\ input.macro = "assert_matches"
    /\ input.cond = Wrap("Bar", Int_(1))
    /\ input.guard # NoGuard
    /\ input.msg # NoMsg
    /\ outcome.kind = "panicked"
    /\ Contains(outcome.message, "expression: Bar(1)\n    pattern: Foo::Bar(x) if x > 1: foo")

\* No alternative of a two-alternative pattern matches.
C22_WitnessNoAlternative ==
    /\ input.macro = "assert_matches"
    /\ input.cond = Wrap("Bar", Int_(0))
    /\ Len(input.pattern) = 2
    /\ input.guard = NoGuard
    /\ outcome.kind = "panicked"
    /\ EndsWith(outcome.message, "pattern: Foo::Bar(1) | Foo::Baz(_)")

----------------------------------------------------------------------------
\* The macros tested with payloads that have no debug rendering.
PayloadBlindMacros == {"assert_ok", "assert_err", "assert_some", "assert_ready",
                       "assert_ready_ok"}

(* C23: assert_ok, assert_err, assert_some, assert_ready, assert_ready_ok  *)
(* and their debug counterparts, with or without a custom message, never   *)
(* debug-format the payload of the expected variant.  A call on a value    *)
(* whose expected-variant payload is of a type without Debug is accepted   *)
(* and returns that payload (nothing, for a debug macro) with no message;  *)
(* on a mismatch the message renders the non-expected variant with its     *)
(* payload, and nothing of the expected variant.                           *)
C23_ExpectedPayloadNeverFormatted ==
    (BaseMacro(input.macro) \in PayloadBlindMacros /\ outcome.kind # "skipped")
        => LET base == BaseMacro(input.macro)
           IN  /\ outcome.kind # "rejected"
               /\ IsExpectedVariant(base, input.cond)
                      => /\ outcome.kind = "returned"
                         /\ outcome.message = ""
                         /\ input.macro = base
                                => outcome.value = PayloadOf(base, input.cond)
               /\ ~IsExpectedVariant(base, input.cond)
                      => /\ outcome.kind = "panicked"
                         /\ StartsWith(outcome.message,
                                       "assertion failed, " \o ExpectedDesc(base)
                                           \o ", got " \o Debug(input.cond))

C23_Witness ==
    /\ input.macro = "assert_ok"
    /\ input.cond = Ok(Opaque)
    /\ input.msg # NoMsg
    /\ outcome.kind = "returned"
    /\ outcome.value = Opaque

C23_WitnessDebugMacro ==
    /\ debug_assertions
    /\ input.macro = "debug_assert_ready_ok"
    /\ input.cond = Ready(Ok(Opaque))
    /\ outcome.kind = "returned"

C23_WitnessMismatch ==
    /\ input.macro = "assert_err"
    /\ input.cond = Ok(Int_(1))
    /\ outcome.kind = "panicked"
    /\ outcome.message = "assertion failed, expected Err(_), got Ok(1)"

----------------------------------------------------------------------------
\* The place of the first evaluation of an argument expression in a call,
\* 0 when it was not evaluated.
FirstAt(ev, e) ==
    IF Count(ev, e) = 0 THEN 0
    ELSE CHOOSE k \in 1..Len(ev) : ev[k] = e /\ \A j \in 1..(k - 1) : ev[j] # e

(* C24: in assert_ok_eq, assert_err_eq, assert_some_eq and assert_ready_eq *)
(* (and their debug forms when checked) the expected-value expression is   *)
(* evaluated only after the inspected value was found to be of the         *)
(* expected variant: never when the variant does not match, and exactly    *)
(* once, after the inspected expression, when it matches, whether the      *)
(* payloads are then equal or not.                                         *)
C24_ExpectedAfterVariant ==
    (BaseMacro(input.macro) \in EqMacros /\ outcome.kind # "skipped")
        => IF IsExpectedVariant(BaseMacro(input.macro), input.cond)
           THEN /\ Count(evals, "expected") = 1
                /\ Count(evals, "cond") = 1
                /\ FirstAt(evals, "cond") < FirstAt(evals, "expected")
           ELSE /\ Count(evals, "expected") = 0
                /\ outcome.kind = "panicked"

C24_Witness ==
    /\ input.macro = "assert_ok_eq"
    /\ input.cond = Err(Int_(1))
    /\ input.expected = Int_(1)
    /\ outcome.kind = "panicked"
    /\ evals = <<"cond">>

C24_WitnessMatch ==
    /\ input.macro = "assert_ready_eq"
    /\ input.cond = Ready(Int_(0))
    /\ input.expected = Int_(1)
    /\ outcome.kind = "panicked"
    /\ evals = <<"cond", "expected">>

----------------------------------------------------------------------------
\* The argument expressions a macro inspects: $cond, $left and $right, or
\* $expression.
InspectedEvents(name) ==
    IF name \in RelationalMacros THEN {"left", "right"}
    ELSE IF name = "assert_matches" THEN {"expression"}
    ELSE {"cond"}

(* C25: the arguments of a custom message are evaluated only on a failure  *)
(* path.  For every assertion that is checked, a passing call given a      *)
(* custom message does not evaluate its arguments, and a failing call      *)
(* evaluates them exactly once, as the last thing it evaluates: after the  *)
(* inspected value, and after both operands of a relational assertion.     *)
C25_MessageOnlyOnFailure ==
    (input.macro \in StrictMacros \cup DebugMacros /\ outcome.kind # "skipped")
        => /\ input.msg = NoMsg => Count(evals, "msg") = 0
           /\ (input.msg # NoMsg /\ outcome.kind = "returned")
                  => Count(evals, "msg") = 0
           /\ (input.msg # NoMsg /\ outcome.kind = "panicked")
                  => /\ Count(evals, "msg") = 1
                     /\ evals[Len(evals)] = "msg"
                     /\ \A e \in InspectedEvents(BaseMacro(input.macro)) :
                            /\ FirstAt(evals, e) > 0
                            /\ FirstAt(evals, e) < FirstAt(evals, "msg")

C25_Witness ==
    /\ input.macro = "assert_le"
    /\ input.msg # NoMsg
    /\ input.msg[1].args # <<>>
    /\ outcome.kind = "returned"
    /\ evals = <<"left", "right">>

C25_WitnessFails ==
    /\ input.macro = "assert_matches"
    /\ input.msg # NoMsg
    /\ outcome.kind = "panicked"
    /\ evals = <<"expression", "guard", "msg">>

C25_WitnessEqFails ==
    /\ input.macro = "assert_some_eq"
    /\ input.msg # NoMsg
    /\ outcome.kind = "panicked"
    /\ evals = <<"cond", "expected", "msg">>

----------------------------------------------------------------------------
(* C26: every strict assertion evaluates each expression it inspects       *)
(* exactly once per call, on the passing and on the failing path, before   *)
(* anything else; the payload returned and the value rendered in the panic *)
(* message are those of that evaluation.                                   *)
C26_InspectedOnce ==
    input.macro \in StrictMacros
        => /\ \A e \in InspectedEvents(input.macro) : Count(evals, e) = 1
           /\ evals[1] \in InspectedEvents(input.macro)
           /\ (input.macro \in UnwrappingMacros /\ outcome.kind = "returned")
                  => outcome.value = PayloadOf(input.macro, input.cond)
           /\ (input.macro \in {"assert_none", "assert_pending"}
                   /\ outcome.kind = "returned")
                  => outcome.value = input.cond
           /\ (outcome.kind = "panicked"
                   /\ (input.macro \in EqMacros
                           => ~IsExpectedVariant(input.macro, input.cond)))
                  => Contains(outcome.message, Debug(input.cond))

C26_Witness ==
    /\ input.macro = "assert_none"
    /\ input.cond = Some(Int_(1))
    /\ input.msg # NoMsg
    /\ outcome.kind = "panicked"
    /\ Count(evals, "cond") = 1
    /\ Contains(outcome.message, "got Some(1)")

C26_WitnessPasses ==
    /\ input.macro = "assert_ready_err"
    /\ input.cond = Ready(Err(Int_(1)))
    /\ outcome.kind = "returned"
    /\ outcome.value = Int_(1)
    /\ evals = <<"cond">>

C26_WitnessMatches ==
    /\ input.macro = "assert_matches"
    /\ outcome.kind = "panicked"
    /\ Len(input.pattern) = 2
    /\ input.guard # NoGuard
    /\ Count(evals, "guard") = 2
    /\ Count(evals, "expression") = 1

----------------------------------------------------------------------------
(* C27: assert_ge, assert_gt, assert_le and assert_lt evaluate the left    *)
(* operand exactly once, then the right operand exactly once, and nothing  *)
(* before them; a passing call evaluates nothing else.  They compare       *)
(* through references: after a passing call both operand places still hold *)
(* the values they held before it, and the caller goes on.                 *)
C27_LeftThenRightByReference ==
    input.macro \in RelationalMacros
        => /\ Len(evals) >= 2
           /\ SubSeq(evals, 1, 2) = <<"left", "right">>
           /\ Count(evals, "left") = 1
           /\ Count(evals, "right") = 1
           /\ outcome.kind = "returned"
                  => /\ evals = <<"left", "right">>
                     /\ places = [cond |-> input.cond, expected |-> input.expected]
                     /\ places.cond # Moved /\ places.expected # Moved
                     /\ pc = "running"

C27_Witness ==
    /\ input.macro = "assert_lt"
    /\ input.cond = Int_(0)
    /\ input.expected = Int_(1)
    /\ outcome.kind = "returned"
    /\ places = [cond |-> Int_(0), expected |-> Int_(1)]

C27_WitnessFails ==
    /\ input.macro = "assert_gt"
    /\ input.msg # NoMsg
    /\ outcome.kind = "panicked"
    /\ evals = <<"left", "right", "msg">>

\* A macro that matches by value: the inspected value is moved out.
C27_WitnessMovedElsewhere ==
    /\ input.macro = "assert_ok"
    /\ outcome.kind = "returned"
    /\ places.cond = Moved

====
